---- MODULE Spec2Model ----
(***************************************************************************)
(* The bookmark collection view model of BookmarkGrid (fetch, filter,      *)
(* delete, drag-reorder with persistence) together with the Remote Store   *)
(* it talks to and the add-bookmark submission that triggers a refresh.    *)
(*                                                                         *)
(* A bookmark's title, url, summary and tags never change after creation,  *)
(* so list entries carry [id, position] and the other fields are read from *)
(* a fixed catalogue keyed by id.  Indices are zero-based as in the code;  *)
(* sequences are one-based, so element i of the code is seq[i + 1].        *)
(***************************************************************************)
EXTENDS Integers, Sequences, FiniteSets, TLC

\* ------------------------------------------------------------------ bounds
MaxBookmarks == 3
MaxGestures == 2
MaxAdds == 1
MaxFailures == 1
MaxInFlight == 2

\* ------------------------------------------------------------ identities
Me == "me"
Other == "other"
Null == -1

InitialIds == 1..MaxBookmarks
AddedIds == (MaxBookmarks + 1)..(MaxBookmarks + MaxAdds)
MyIds == InitialIds \cup AddedIds
OtherId == MaxBookmarks + MaxAdds + 1
AllIds == MyIds \cup {OtherId}

\* ------------------------------------------------------------- catalogue
\* Text is a sequence of one-character strings.
Kind(id) == id % 4

TitleOf(id) ==
  CASE Kind(id) = 1 -> <<"G", "h", "D">>
    [] Kind(id) = 2 -> <<"E", "x">>
    [] Kind(id) = 3 -> <<"D", "o">>
    [] OTHER -> <<"H", "g">>

UrlOf(id) ==
  CASE Kind(id) = 1 -> <<"x", "g">>
    [] Kind(id) = 2 -> <<"e", "x">>
    [] Kind(id) = 3 -> <<"d", "o">>
    [] OTHER -> <<"x", "G", "H">>

\* summary: string | null, as a sequence holding the text or nothing.
SummaryOf(id) ==
  CASE Kind(id) = 1 -> << >>
    [] Kind(id) = 2 -> << >>
    [] Kind(id) = 3 -> << <<"g", "H">> >>
    [] OTHER -> << <<"h">> >>

TagsOf(id) ==
  CASE Kind(id) = 1 -> <<"personal", "work">>
    [] Kind(id) = 2 -> <<"personal">>
    [] Kind(id) = 3 -> << >>
    [] OTHER -> <<"work">>

SearchTerms == { << >>, <<"g", "H">> }
TagOrder == <<"personal", "work">>
TagNames == {TagOrder[i] : i \in DOMAIN TagOrder}

\* --------------------------------------------------------- pure helpers
Range(s) == {s[i] : i \in DOMAIN s}
Ids(list) == [i \in DOMAIN list |-> list[i].id]
Positions(list) == [i \in DOMAIN list |-> list[i].position]
Min(a, b) == IF a < b THEN a ELSE b
Max(a, b) == IF a > b THEN a ELSE b

\* Array.prototype.findIndex on item.id: zero-based index, -1 when absent.
FindIndex(list, id) ==
  IF \E i \in DOMAIN list : list[i].id = id
  THEN (CHOOSE i \in DOMAIN list :
          list[i].id = id /\ \A j \in 1..(i - 1) : list[j].id # id) - 1
  ELSE -1

\* Array.prototype.splice start normalisation: negative counts from the end.
SpliceStart(len, start) ==
  IF start < 0 THEN Max(len + start, 0) ELSE Min(start, len)

\* arr.splice(start, 1): the array without the element at start.
SpliceOut(arr, start) ==
  LET s == SpliceStart(Len(arr), start)
  IN  SubSeq(arr, 1, s) \o SubSeq(arr, s + 2, Len(arr))

\* arr.splice(start, 0, item)
SpliceIn(arr, start, item) ==
  LET s == SpliceStart(Len(arr), start)
  IN  SubSeq(arr, 1, s) \o <<item>> \o SubSeq(arr, s + 1, Len(arr))

\* The two elements exchanged instead of one moved.
ArraySwap(array, from, to) ==
  LET f == SpliceStart(Len(array), from)
      t == SpliceStart(Len(array), to)
  IN  [i \in DOMAIN array |->
         IF i = f + 1 THEN array[t + 1]
         ELSE IF i = t + 1 THEN array[f + 1]
         ELSE array[i]]

\* arrayMove of @dnd-kit/sortable: the insertion index is computed on the
\* array before the removal (arguments are evaluated left to right).
ArrayMove(array, from, to) ==
  LET f == SpliceStart(Len(array), from)
      item == array[f + 1]
      target == IF to < 0 THEN Len(array) + to ELSE to
  IN  SpliceIn(SpliceOut(array, from), target, item)

\* Insertion of b after every element that does not compare greater.
SortInsert(sorted, b) ==
  LET before == SelectSeq(sorted, LAMBDA x : x.position <= b.position)
      after == SelectSeq(sorted, LAMBDA x : x.position > b.position)
  IN  before \o <<b>> \o after

RECURSIVE SortByPosition(_)
\* updated.sort((a, b) => a.position - b.position): stable, ascending.
SortByPosition(list) ==
  IF list = << >> THEN << >>
  ELSE SortInsert(SortByPosition(SubSeq(list, 1, Len(list) - 1)), list[Len(list)])

\* ------------------------------------------------------ filter derivation
\* String.prototype.toLowerCase on the model's alphabet.
LowerChar(c) ==
  CASE c = "G" -> "g" [] c = "H" -> "h" [] c = "E" -> "e"
    [] c = "X" -> "x" [] c = "D" -> "d" [] c = "O" -> "o"
    [] OTHER -> c

ToLowerCase(text) == [i \in DOMAIN text |-> LowerChar(text[i])]

\* String.prototype.includes
Includes(text, needle) ==
  \E i \in 0..(Len(text) - Len(needle)) :
     SubSeq(text, i + 1, i + Len(needle)) = needle

\* The search predicate of the filter effect; summary?. skips a null summary.
MatchesSearch(b, term) ==
  \/ Includes(ToLowerCase(TitleOf(b.id)), ToLowerCase(term))
  \/ Includes(ToLowerCase(UrlOf(b.id)), ToLowerCase(term))
  \/ /\ SummaryOf(b.id) # << >>
     /\ Includes(ToLowerCase(SummaryOf(b.id)[1]), ToLowerCase(term))

\* every in place of some.
MatchesAllTags(b, tags) == \A tag \in tags : tag \in Range(TagsOf(b.id))

\* selectedTags.some(tag => bookmark.tags.includes(tag))
MatchesTags(b, tags) == \E tag \in tags : tag \in Range(TagsOf(b.id))

\* The tag filter applied without the selectedTags.length > 0 guard.
FilterAlwaysByTags(list, term, tags) ==
  LET bySearch == IF term # << >>
                  THEN SelectSeq(list, LAMBDA b : MatchesSearch(b, term))
                  ELSE list
  IN  SelectSeq(bySearch, LAMBDA b : MatchesTags(b, tags))

\* The body of the filter effect: search first, then tags.
FilterBookmarks(list, term, tags) ==
  LET bySearch == IF term # << >>
                  THEN SelectSeq(list, LAMBDA b : MatchesSearch(b, term))
                  ELSE list
  IN  IF tags # {}
      THEN SelectSeq(bySearch, LAMBDA b : MatchesTags(b, tags))
      ELSE bySearch

\* ------------------------------------------------------ fetch & normalise
\* Every row renumbered by its index.
WithIndexAsOrder(data) ==
  [i \in DOMAIN data |-> [id |-> data[i].id, position |-> i - 1]]

\* position: bookmark.position ?? index
WithOrder(data) ==
  [i \in DOMAIN data |->
     [id |-> data[i].id,
      position |-> IF data[i].position = Null THEN i - 1 ELSE data[i].position]]

\* The tags of the first fetched row only.
ExtractTagsOfFirst(data) ==
  SelectSeq(TagOrder, LAMBDA t : data # << >> /\ t \in Range(TagsOf(data[1].id)))

\* Array.from(tags).sort() over every tag of the fetched rows.
ExtractTags(data) ==
  LET found == UNION {Range(TagsOf(data[i].id)) : i \in DOMAIN data}
  IN  SelectSeq(TagOrder, LAMBDA t : t \in found)

\* ----------------------------------------------------------- remote store
OwnerOf(id) == IF id = OtherId THEN Other ELSE Me
Absent(id) == [present |-> FALSE, user_id |-> OwnerOf(id), position |-> Null]
Row(id, pos) == [present |-> TRUE, user_id |-> OwnerOf(id), position |-> pos]

\* The select without its owner predicate.
OwnedByAnyone(st, owner) == {id \in DOMAIN st : st[id].present}

\* Rows selected by .eq('user_id', owner)
OwnedBy(st, owner) == {id \in DOMAIN st : st[id].present /\ st[id].user_id = owner}

\* ascending order of a column puts a missing value last
OrderKey(pos) == IF pos = Null THEN MaxBookmarks + MaxAdds + 2 ELSE pos

\* select('*').eq('user_id', owner).order('position', ascending): every
\* sequence of the owner's rows that is ascending by position; rows with
\* equal positions come in any order.
StoreList(st, owner) ==
  LET rows == OwnedBy(st, owner)
      n == Cardinality(rows)
      orders == {f \in [1..n -> rows] :
                   /\ \A i, j \in 1..n : i # j => f[i] # f[j]
                   /\ \A i \in 1..(n - 1) :
                        OrderKey(st[f[i]].position) <= OrderKey(st[f[i + 1]].position)}
  IN  {[i \in 1..n |-> [id |-> f[i], position |-> st[f[i]].position]] : f \in orders}

\* An update that matches no row.
StoreUpdateIgnored(st, id, owner, pos) == st

\* update({position}).eq('id', id).eq('user_id', owner)
StoreUpdate(st, id, owner, pos) ==
  [x \in DOMAIN st |->
     IF x = id /\ st[x].present /\ st[x].user_id = owner
     THEN [st[x] EXCEPT !.position = pos]
     ELSE st[x]]

\* delete().eq('id', id).eq('user_id', owner)
StoreDelete(st, id, owner) ==
  [x \in DOMAIN st |->
     IF x = id /\ st[x].present /\ st[x].user_id = owner
     THEN Absent(x)
     ELSE st[x]]

\* insert({user_id, url, title, summary, tags, favicon_url}): no position given
StoreInsert(st, id, owner) ==
  [st EXCEPT ![id] = [present |-> TRUE, user_id |-> owner, position |-> Null]]

\* ------------------------------------------------------------------ state
VARIABLES
  store,              \* Remote Store: id -> row
  bookmarks,          \* working list (useState bookmarks)
  filteredBookmarks,  \* filtered view (useState filteredBookmarks)
  searchTerm,
  selectedTags,       \* the set of the selected tags
  allTags,            \* tag universe
  isLoading,
  fetches,            \* fetchBookmarks calls awaiting the select
  deletes,            \* handleDeleteBookmark calls awaiting the delete
  reorders,           \* handleDragEnd calls awaiting an update
  form,               \* AddBookmarkForm: idle, or the insert awaited
  toast,              \* title of the latest notification
  used,               \* gestures spent, for the bounds
  last                \* the latest step, for stating properties

vars == <<store, bookmarks, filteredBookmarks, searchTerm, selectedTags, allTags,
          isLoading, fetches, deletes, reorders, form, toast, used, last>>

NoOver == 0
NoToast == "none"

\* AddBookmarkForm with no submission under way.
Idle == [phase |-> "idle", title |-> "", summary |-> ""]

\* A handleDragEnd in flight.  active, over, filtered, oldIndex, newIndex and
\* newOrdered are the values its closure holds; call k of the update loop is
\* outstanding.  calls, done, preBookmarks, clean and failed record history:
\* the update calls issued so far, how many of them have completed, the
\* working list at the gesture, whether no other step happened since, and the
\* calls that failed.
Reorder(active, over, filtered, oldIndex, newIndex, newOrdered, pre) ==
  [active |-> active, over |-> over,
   filtered |-> filtered, oldIndex |-> oldIndex, newIndex |-> newIndex,
   newOrdered |-> newOrdered, k |-> 1, calls |-> << >>, done |-> 0,
   preBookmarks |-> pre, clean |-> TRUE, failed |-> {}]

NoReorder == [Reorder(0, 0, << >>, 0, 0, << >>, << >>) EXCEPT !.k = 0]

\* The record of a step: the handler, its arguments and outcome, the reorder
\* it settled, the rows a fetch received, the working list it started from,
\* for a submission whether the title and the summary fetcher delivered, and
\* for a fetch the rows of a fetch issued after it that completed before it.
Step(op) ==
  [op |-> op, id |-> 0, over |-> 0, outcome |-> "", r |-> NoReorder,
   data |-> << >>, pre |-> << >>, fetched |-> [title |-> FALSE, summary |-> FALSE],
   newer |-> << >>]

Touched(rs) == [i \in DOMAIN rs |-> [rs[i] EXCEPT !.clean = FALSE]]
Without(seq, i) == SubSeq(seq, 1, i - 1) \o SubSeq(seq, i + 1, Len(seq))

\* A fetchBookmarks call awaiting its select.  newer records history: the
\* rows delivered by the latest-issued of the fetches that were issued after
\* this one and have already completed successfully, if there is one.
SentFetch == [served |-> FALSE, ok |-> FALSE, data |-> << >>, newer |-> << >>]

\* The fetches still outstanding once fetch i has delivered data: those
\* issued before it have been overtaken.
Overtaken(fs, i, data) ==
  [j \in 1..(Len(fs) - 1) |->
     IF j < i
     THEN [fs[j] EXCEPT !.newer = IF fs[i].newer # << >> THEN fs[i].newer ELSE <<data>>]
     ELSE fs[j + 1]]

\* Positions the owner's rows may hold when the page is opened: renumbered by
\* an earlier reorder; or what is left of a longer renumbered list after a
\* delete, with a row added since (the insert sets no position).
InitialPositions ==
  { [id \in InitialIds |-> id - 1],
    [id \in InitialIds |->
       IF id = MaxBookmarks THEN Null
       ELSE IF id = MaxBookmarks - 1 THEN MaxBookmarks
       ELSE id - 1] }

\* The store when the page is opened: the owner's rows and one row of another
\* owner.
InitialStores ==
  {[id \in AllIds |->
      IF id \in InitialIds THEN Row(id, p[id])
      ELSE IF id = OtherId THEN Row(id, 0)
      ELSE Absent(id)] : p \in InitialPositions}

\* The component as first rendered: empty lists, loading, and the mount effect
\* has called fetchBookmarks.
Init ==
  /\ store \in InitialStores
  /\ bookmarks = << >>
  /\ filteredBookmarks = << >>
  /\ searchTerm = << >>
  /\ selectedTags = {}
  /\ allTags = << >>
  /\ isLoading = TRUE
  /\ fetches = <<SentFetch>>
  /\ deletes = << >>
  /\ reorders = << >>
  /\ form = Idle
  /\ toast = NoToast
  /\ used = [gestures |-> 0, adds |-> 0, failures |-> 0]
  /\ last = Step("Mount")

\* Handlers suspended at an await; the number of them is bounded.
InFlight ==
  Len(fetches) + Len(deletes) + Len(reorders) + (IF form.phase = "saving" THEN 1 ELSE 0)

\* A remote call ends in failure; the number of failures is bounded.
Failing ==
  /\ used.failures < MaxFailures
  /\ used' = [used EXCEPT !.failures = @ + 1]

Outcome(outcome) == IF outcome = "ok" THEN used' = used ELSE Failing

\* ------------------------------------------------------------------ fetch
\* The store answers a select: the owner's rows, or a failure.
StoreAnswersSelect(i) ==
  /\ i \in DOMAIN fetches
  /\ ~fetches[i].served
  /\ \/ /\ \E data \in StoreList(store, Me) :
             fetches' = [fetches EXCEPT ![i] = [@ EXCEPT !.served = TRUE, !.ok = TRUE,
                                                         !.data = data]]
          /\ used' = used
     \/ /\ fetches' = [fetches EXCEPT ![i] = [@ EXCEPT !.served = TRUE, !.ok = FALSE]]
        /\ Failing
  /\ reorders' = Touched(reorders)
  /\ last' = Step("StoreAnswersSelect")
  /\ UNCHANGED <<store, bookmarks, filteredBookmarks, searchTerm, selectedTags,
                 allTags, isLoading, deletes, form, toast>>

\* fetchBookmarks emptying the lists when the select failed.
FetchBookmarksSettleClearing(i) ==
  /\ i \in DOMAIN fetches
  /\ fetches[i].served
  /\ IF fetches[i].ok
     THEN /\ bookmarks' = WithOrder(fetches[i].data)
          /\ allTags' = ExtractTags(fetches[i].data)
          /\ filteredBookmarks' = FilterBookmarks(bookmarks', searchTerm, selectedTags)
          /\ toast' = toast
          /\ fetches' = Overtaken(fetches, i, fetches[i].data)
          /\ last' = [Step("FetchBookmarksSettle") EXCEPT
                        !.outcome = "ok", !.data = fetches[i].data, !.pre = bookmarks,
                        !.newer = fetches[i].newer]
     ELSE /\ toast' = "Error loading bookmarks"
          /\ fetches' = Without(fetches, i)
          /\ last' = [Step("FetchBookmarksSettle") EXCEPT !.outcome = "error"]
          /\ bookmarks' = << >>
          /\ allTags' = << >>
          /\ filteredBookmarks' = << >>
  /\ isLoading' = FALSE
  /\ reorders' = Touched(reorders)
  /\ UNCHANGED <<store, searchTerm, selectedTags, deletes, form, used>>

\* fetchBookmarks after its await, with the filter effect that follows
\* setBookmarks.
FetchBookmarksSettle(i) ==
  /\ i \in DOMAIN fetches
  /\ fetches[i].served
  /\ IF fetches[i].ok
     THEN /\ bookmarks' = WithOrder(fetches[i].data)
          /\ allTags' = ExtractTags(fetches[i].data)
          /\ filteredBookmarks' = FilterBookmarks(bookmarks', searchTerm, selectedTags)
          /\ toast' = toast
          /\ fetches' = Overtaken(fetches, i, fetches[i].data)
          /\ last' = [Step("FetchBookmarksSettle") EXCEPT
                        !.outcome = "ok", !.data = fetches[i].data, !.pre = bookmarks,
                        !.newer = fetches[i].newer]
     ELSE /\ toast' = "Error loading bookmarks"
          /\ fetches' = Without(fetches, i)
          /\ last' = [Step("FetchBookmarksSettle") EXCEPT !.outcome = "error"]
          /\ UNCHANGED <<bookmarks, allTags, filteredBookmarks>>
  /\ isLoading' = FALSE
  /\ reorders' = Touched(reorders)
  /\ UNCHANGED <<store, searchTerm, selectedTags, deletes, form, used>>

\* ----------------------------------------------------------------- filter
SetSearchTerm(term) ==
  /\ ~isLoading
  /\ term \in SearchTerms
  /\ term # searchTerm
  /\ used.gestures < MaxGestures
  /\ used' = [used EXCEPT !.gestures = @ + 1]
  /\ searchTerm' = term
  /\ filteredBookmarks' = FilterBookmarks(bookmarks, searchTerm', selectedTags)
  /\ reorders' = Touched(reorders)
  /\ last' = Step("SetSearchTerm")
  /\ UNCHANGED <<store, bookmarks, selectedTags, allTags, isLoading, fetches,
                 deletes, form, toast>>

\* prev.includes(tag) ? prev.filter(t => t !== tag) : [...prev, tag]
Toggled(prev, tag) == IF tag \in prev THEN prev \ {tag} ELSE prev \cup {tag}

\* A click on one of the tag chips, which are rendered from allTags.
ToggleTag(tag) ==
  /\ ~isLoading
  /\ tag \in Range(allTags)
  /\ used.gestures < MaxGestures
  /\ used' = [used EXCEPT !.gestures = @ + 1]
  /\ selectedTags' = Toggled(selectedTags, tag)
  /\ filteredBookmarks' = FilterBookmarks(bookmarks, searchTerm, selectedTags')
  /\ reorders' = Touched(reorders)
  /\ last' = Step("ToggleTag")
  /\ UNCHANGED <<store, bookmarks, searchTerm, allTags, isLoading, fetches,
                 deletes, form, toast>>

\* The "Clear filters" button, shown while a filter is set.
ClearFilters ==
  /\ ~isLoading
  /\ searchTerm # << >> \/ selectedTags # {}
  /\ used.gestures < MaxGestures
  /\ used' = [used EXCEPT !.gestures = @ + 1]
  /\ searchTerm' = << >>
  /\ selectedTags' = {}
  /\ filteredBookmarks' = FilterBookmarks(bookmarks, searchTerm', selectedTags')
  /\ reorders' = Touched(reorders)
  /\ last' = Step("ClearFilters")
  /\ UNCHANGED <<store, bookmarks, allTags, isLoading, fetches, deletes, form,
                 toast>>

\* ----------------------------------------------------------------- delete
\* The remaining bookmarks renumbered after the removal.
RemoveAndRenumber(prev, id) ==
  LET rest == SelectSeq(prev, LAMBDA b : b.id # id)
  IN  [i \in DOMAIN rest |-> [rest[i] EXCEPT !.position = i - 1]]

\* prev.filter(b => b.id !== id)
RemoveById(prev, id) == SelectSeq(prev, LAMBDA b : b.id # id)

\* handleDeleteBookmark up to its await: the delete button of a shown card.
HandleDeleteBookmark(id) ==
  /\ ~isLoading
  /\ \E i \in DOMAIN filteredBookmarks : filteredBookmarks[i].id = id
  /\ used.gestures < MaxGestures
  /\ InFlight < MaxInFlight
  /\ used' = [used EXCEPT !.gestures = @ + 1]
  /\ deletes' = Append(deletes, id)
  /\ reorders' = Touched(reorders)
  /\ last' = [Step("HandleDeleteBookmark") EXCEPT !.id = id]
  /\ UNCHANGED <<store, bookmarks, filteredBookmarks, searchTerm, selectedTags,
                 allTags, isLoading, fetches, form, toast>>

\* handleDeleteBookmark removing the bookmark from the list whatever the
\* outcome of the delete call.
DeleteSettleRemoving(i, outcome) ==
  /\ i \in DOMAIN deletes
  /\ outcome \in {"ok", "error"}
  /\ Outcome(outcome)
  /\ IF outcome = "ok"
     THEN /\ store' = StoreDelete(store, deletes[i], Me)
          /\ bookmarks' = RemoveById(bookmarks, deletes[i])
          /\ filteredBookmarks' = FilterBookmarks(bookmarks', searchTerm, selectedTags)
          /\ toast' = "Bookmark deleted"
     ELSE /\ toast' = "Error deleting bookmark"
          /\ bookmarks' = RemoveById(bookmarks, deletes[i])
          /\ filteredBookmarks' = FilterBookmarks(bookmarks', searchTerm, selectedTags)
          /\ UNCHANGED store
  /\ deletes' = Without(deletes, i)
  /\ reorders' = Touched(reorders)
  /\ last' = [Step("DeleteSettle") EXCEPT
                !.id = deletes[i], !.outcome = outcome, !.pre = bookmarks]
  /\ UNCHANGED <<searchTerm, selectedTags, allTags, isLoading, fetches, form>>

\* The delete call completes and handleDeleteBookmark resumes; the filter
\* effect follows setBookmarks.
DeleteSettle(i, outcome) ==
  /\ i \in DOMAIN deletes
  /\ outcome \in {"ok", "error"}
  /\ Outcome(outcome)
  /\ IF outcome = "ok"
     THEN /\ store' = StoreDelete(store, deletes[i], Me)
          /\ bookmarks' = RemoveById(bookmarks, deletes[i])
          /\ filteredBookmarks' = FilterBookmarks(bookmarks', searchTerm, selectedTags)
          /\ toast' = "Bookmark deleted"
     ELSE /\ toast' = "Error deleting bookmark"
          /\ UNCHANGED <<store, bookmarks, filteredBookmarks>>
  /\ deletes' = Without(deletes, i)
  /\ reorders' = Touched(reorders)
  /\ last' = [Step("DeleteSettle") EXCEPT
                !.id = deletes[i], !.outcome = outcome, !.pre = bookmarks]
  /\ UNCHANGED <<searchTerm, selectedTags, allTags, isLoading, fetches, form>>

\* ---------------------------------------------------------------- reorder
\* The guard of handleDragEnd left out.
IsMoveAlways(active, over) == TRUE

\* active.id !== over?.id
IsMove(active, over) == active # over

\* The same updates, last element first.
UpdatesBackwards(newOrdered) ==
  [i \in DOMAIN newOrdered |->
     [id |-> newOrdered[Len(newOrdered) - i + 1].id, position |-> Len(newOrdered) - i]]

\* updates = newOrderedBookmarks.map((bookmark, index) => ({id, position: index}))
Updates(newOrdered) ==
  [i \in DOMAIN newOrdered |-> [id |-> newOrdered[i].id, position |-> i - 1]]

\* The loop left before its last element.
MoreUpdatesButLast(r) == r.k < Len(Updates(r.newOrdered)) - 1

\* for (const update of updates): there is an element after call k.
MoreUpdates(r) == r.k < Len(Updates(r.newOrdered))

\* The spread without the new position.
PlacedAsBefore(bookmark, index) == bookmark

\* { ...bookmark, position: index }
Placed(bookmark, index) == [bookmark EXCEPT !.position = index]

RECURSIVE Overwrite(_, _, _)
\* newOrderedBookmarks.forEach((bookmark, index) => ...) from element `from` on:
\* the entry of the same id, when there is one, becomes {...bookmark, position: index}.
Overwrite(updated, newOrdered, from) ==
  IF from > Len(newOrdered) THEN updated
  ELSE LET bookmarkIndex == FindIndex(updated, newOrdered[from].id)
           next == IF bookmarkIndex # -1
                   THEN [updated EXCEPT ![bookmarkIndex + 1] =
                           Placed(newOrdered[from], from - 1)]
                   ELSE updated
       IN  Overwrite(next, newOrdered, from + 1)

\* The updater without its sort.
ReconciledUnsorted(prev, newOrdered) == Overwrite(prev, newOrdered, 1)

\* The updater given to setBookmarks after the update loop.
Reconciled(prev, newOrdered) == SortByPosition(Overwrite(prev, newOrdered, 1))

\* handleDragEnd without the setFilteredBookmarks before its loop.
HandleDragEndUnapplied(active, over) ==
  /\ ~isLoading
  /\ \E i \in DOMAIN filteredBookmarks : filteredBookmarks[i].id = active
  /\ over = NoOver \/ \E i \in DOMAIN filteredBookmarks : filteredBookmarks[i].id = over
  /\ used.gestures < MaxGestures
  /\ IF IsMove(active, over)
     THEN LET oldIndex == FindIndex(filteredBookmarks, active)
              newIndex == FindIndex(filteredBookmarks, over)
              newOrdered == ArrayMove(filteredBookmarks, oldIndex, newIndex)
              r == Reorder(active, over, filteredBookmarks, oldIndex, newIndex,
                           newOrdered, bookmarks)
          IN  /\ InFlight < MaxInFlight
              /\ used' = [used EXCEPT !.gestures = @ + 1]
              /\ filteredBookmarks' = filteredBookmarks
              /\ reorders' = Append(Touched(reorders),
                                    [r EXCEPT !.calls = <<Updates(newOrdered)[1]>>])
     ELSE /\ used' = [used EXCEPT !.gestures = @ + 1]
          /\ UNCHANGED <<filteredBookmarks, reorders>>
  /\ last' = [Step("HandleDragEnd") EXCEPT !.id = active, !.over = over]
  /\ UNCHANGED <<store, bookmarks, searchTerm, selectedTags, allTags, isLoading,
                 fetches, deletes, form, toast>>

\* handleDragEnd up to its first await: the view takes the new order and the
\* first update call is issued.  The dragged card is one of the shown cards;
\* over is another card, the same card, or absent.
HandleDragEnd(active, over) ==
  /\ ~isLoading
  /\ \E i \in DOMAIN filteredBookmarks : filteredBookmarks[i].id = active
  /\ over = NoOver \/ \E i \in DOMAIN filteredBookmarks : filteredBookmarks[i].id = over
  /\ used.gestures < MaxGestures
  /\ IF IsMove(active, over)
     THEN LET oldIndex == FindIndex(filteredBookmarks, active)
              newIndex == FindIndex(filteredBookmarks, over)
              newOrdered == ArrayMove(filteredBookmarks, oldIndex, newIndex)
              r == Reorder(active, over, filteredBookmarks, oldIndex, newIndex,
                           newOrdered, bookmarks)
          IN  /\ InFlight < MaxInFlight
              /\ used' = [used EXCEPT !.gestures = @ + 1]
              /\ filteredBookmarks' = newOrdered
              /\ reorders' = Append(Touched(reorders),
                                    [r EXCEPT !.calls = <<Updates(newOrdered)[1]>>])
     ELSE /\ used' = [used EXCEPT !.gestures = @ + 1]
          /\ UNCHANGED <<filteredBookmarks, reorders>>
  /\ last' = [Step("HandleDragEnd") EXCEPT !.id = active, !.over = over]
  /\ UNCHANGED <<store, bookmarks, searchTerm, selectedTags, allTags, isLoading,
                 fetches, deletes, form, toast>>

\* Update call k of reorder i completes and handleDragEnd resumes: it issues
\* the next call, or reconciles the working list after the last one, or
\* reverts the view in its catch block.  The call either took effect ("ok"),
\* resolved with an error the loop does not look at ("error"), or rejected
\* ("throw").
UpdateSettle(i, outcome) ==
  /\ i \in DOMAIN reorders
  /\ outcome \in {"ok", "error", "throw"}
  /\ Outcome(outcome)
  /\ LET r == reorders[i]
         update == r.calls[Len(r.calls)]
         seen == [r EXCEPT !.done = @ + 1,
                           !.failed = IF outcome = "ok" THEN @ ELSE @ \cup {r.k}]
         others == Touched(Without(reorders, i))
     IN  /\ store' = IF outcome = "ok"
                     THEN StoreUpdate(store, update.id, Me, update.position)
                     ELSE store
         /\ IF outcome = "throw"
            THEN /\ toast' = "Error updating order"
                 /\ filteredBookmarks' = ArrayMove(r.newOrdered, r.newIndex, r.oldIndex)
                 /\ reorders' = others
                 /\ last' = [Step("ReorderReverted") EXCEPT !.r = seen]
                 /\ UNCHANGED bookmarks
            ELSE IF MoreUpdates(r)
            THEN /\ reorders' = [Touched(reorders) EXCEPT ![i] =
                                   [seen EXCEPT !.k = @ + 1,
                                                !.calls = Append(@, Updates(r.newOrdered)[r.k + 1])]]
                 /\ last' = [Step("UpdateSettle") EXCEPT !.outcome = outcome, !.r = seen]
                 /\ UNCHANGED <<bookmarks, filteredBookmarks, toast>>
            ELSE /\ bookmarks' = Reconciled(bookmarks, r.newOrdered)
                 /\ filteredBookmarks' = FilterBookmarks(bookmarks', searchTerm, selectedTags)
                 /\ reorders' = others
                 /\ last' = [Step("ReorderReconciled") EXCEPT !.r = seen]
                 /\ UNCHANGED toast
  /\ UNCHANGED <<searchTerm, selectedTags, allTags, isLoading, fetches, deletes,
                 form>>

\* ----------------------------------------------------------- add bookmark
\* What the insert may carry as title and summary.
PageTitle == "page title"
Hostname == "hostname"
PageSummary == "page text"
Placeholder == "Summary temporarily unavailable."

\* extractMetadata: the title of the fetched page, or new URL(url).hostname
\* when the fetch or the extraction fails.
ExtractMetadata(fetched) == IF fetched THEN PageTitle ELSE Hostname

\* A failed summary fetch leaving the summary empty.
GenerateSummaryOrNothing(fetched) == IF fetched THEN PageSummary ELSE ""

\* generateSummary: the fetched text, or the placeholder on a response that
\* is not ok or on an exception.
GenerateSummary(fetched) == IF fetched THEN PageSummary ELSE Placeholder

\* handleSubmit up to the insert: new URL(...) throws on text that is no URL;
\* otherwise both fetchers are awaited, each delivering or failing, and the
\* insert is issued with what they returned.
HandleSubmit(urlParses, titleFetched, summaryFetched) ==
  /\ form = Idle
  /\ used.adds < MaxAdds /\ used.gestures < MaxGestures
  /\ urlParses => InFlight < MaxInFlight
  /\ used' = [used EXCEPT !.adds = @ + 1, !.gestures = @ + 1]
  /\ IF urlParses
     THEN /\ form' = [phase |-> "saving",
                      title |-> ExtractMetadata(titleFetched),
                      summary |-> GenerateSummary(summaryFetched)]
          /\ toast' = toast
          /\ last' = [Step("HandleSubmit") EXCEPT
                        !.outcome = "ok",
                        !.fetched = [title |-> titleFetched, summary |-> summaryFetched]]
     ELSE /\ form' = Idle
          /\ toast' = "Error saving bookmark"
          /\ last' = [Step("HandleSubmit") EXCEPT !.outcome = "error"]
  /\ reorders' = Touched(reorders)
  /\ UNCHANGED <<store, bookmarks, filteredBookmarks, searchTerm, selectedTags,
                 allTags, isLoading, fetches, deletes>>

\* The insert completes.  On success onBookmarkAdded bumps refreshTrigger and
\* the fetch effect of BookmarkGrid calls fetchBookmarks.
InsertSettle(outcome) ==
  /\ form.phase = "saving"
  /\ outcome \in {"ok", "error"}
  /\ Outcome(outcome)
  /\ IF outcome = "ok"
     THEN /\ store' = StoreInsert(store, MaxBookmarks + used.adds, Me)
          /\ toast' = "Bookmark saved!"
          /\ fetches' = Append(fetches, SentFetch)
     ELSE /\ toast' = "Error saving bookmark"
          /\ UNCHANGED <<store, fetches>>
  /\ form' = Idle
  /\ reorders' = Touched(reorders)
  /\ last' = [Step("InsertSettle") EXCEPT !.outcome = outcome]
  /\ UNCHANGED <<bookmarks, filteredBookmarks, searchTerm, selectedTags, allTags,
                 isLoading, deletes>>

\* ---------------------------------------------------------- specification
Next ==
  \/ \E i \in 1..MaxInFlight : StoreAnswersSelect(i)
  \/ \E i \in 1..MaxInFlight : FetchBookmarksSettle(i)
  \/ \E term \in SearchTerms : SetSearchTerm(term)
  \/ \E tag \in TagNames : ToggleTag(tag)
  \/ ClearFilters
  \/ \E id \in AllIds : HandleDeleteBookmark(id)
  \/ \E i \in 1..MaxInFlight, outcome \in {"ok", "error"} : DeleteSettle(i, outcome)
  \/ \E active \in AllIds, over \in AllIds \cup {NoOver} : HandleDragEnd(active, over)
  \/ \E i \in 1..MaxInFlight, outcome \in {"ok", "error", "throw"} : UpdateSettle(i, outcome)
  \/ \E urlParses, titleFetched, summaryFetched \in BOOLEAN :
        HandleSubmit(urlParses, titleFetched, summaryFetched)
  \/ \E outcome \in {"ok", "error"} : InsertSettle(outcome)

Spec == Init /\ [][Next]_vars

\* -------------------------------------------- fetch on any returned rows
\* Every sequence of up to MaxBookmarks distinct rows of the owner, in any
\* order and with any positions, as the answer to the mount fetch.
ReturnedRows ==
  UNION {{d \in [1..n -> [id : MyIds, position : {Null} \cup (0..(MaxBookmarks - 1))]] :
            \A i, j \in 1..n : i # j => d[i].id # d[j].id} : n \in 0..MaxBookmarks}

InitFetch ==
  /\ store \in InitialStores
  /\ bookmarks = << >>
  /\ filteredBookmarks = << >>
  /\ searchTerm = << >>
  /\ selectedTags = {}
  /\ allTags = << >>
  /\ isLoading = TRUE
  /\ \E data \in ReturnedRows :
        fetches = <<[SentFetch EXCEPT !.served = TRUE, !.ok = TRUE, !.data = data]>>
  /\ deletes = << >>
  /\ reorders = << >>
  /\ form = Idle
  /\ toast = NoToast
  /\ used = [gestures |-> 0, adds |-> 0, failures |-> 0]
  /\ last = Step("Mount")

NextFetch == \E i \in 1..MaxInFlight : FetchBookmarksSettle(i)

SpecFetch == InitFetch /\ [][NextFetch]_vars

\* ------------------------------- filter derivation on any list and filter
\* The filter effect has run on a working list, a search text and a set of
\* selected tags, each of them arbitrary; the filter inputs then change.
InitFilter ==
  /\ store \in InitialStores
  /\ \E data \in ReturnedRows :
        /\ bookmarks = WithOrder(data)
        /\ allTags = ExtractTags(data)
  /\ searchTerm \in SearchTerms
  /\ selectedTags \in SUBSET TagNames
  /\ filteredBookmarks = FilterBookmarks(bookmarks, searchTerm, selectedTags)
  /\ isLoading = FALSE
  /\ fetches = << >>
  /\ deletes = << >>
  /\ reorders = << >>
  /\ form = Idle
  /\ toast = NoToast
  /\ used = [gestures |-> 0, adds |-> 0, failures |-> 0]
  /\ last = Step("FilterEffect")

NextFilter ==
  \/ \E term \in SearchTerms : SetSearchTerm(term)
  \/ \E tag \in TagNames : ToggleTag(tag)
  \/ ClearFilters

SpecFilter == InitFilter /\ [][NextFilter]_vars

\* ================================================================ claims
Settled(op) == last.op = op
Success == Settled("ReorderReconciled") /\ last.r.failed = {}

\* The positions of list are exactly 0 .. n - 1, each held once.
DensePositions(list, n) ==
  /\ Len(list) = n
  /\ \A p \in 0..(n - 1) :
       Cardinality({i \in DOMAIN list : list[i].position = p}) = 1

\* view is list restricted to the indices in keep, in list's order.
IsRestriction(view, list, keep) ==
  /\ Len(view) = Cardinality(keep)
  /\ \A i \in keep : view[Cardinality({j \in keep : j <= i})] = list[i]

\* C1: after a successful reorder with no search text and no selected tags
\* over the whole working list of N bookmarks, with no other step in
\* between, the working list holds each of the positions 0 .. N-1 once.
C1_UnfilteredReorderIsDense ==
  ( /\ Success
    /\ last.r.clean
    /\ searchTerm = << >> /\ selectedTags = {}
    /\ last.r.filtered = last.r.preBookmarks )
  => DensePositions(bookmarks, Len(last.r.preBookmarks))

C1_Witness ==
  /\ Success
  /\ last.r.clean
  /\ searchTerm = << >> /\ selectedTags = {}
  /\ last.r.filtered = last.r.preBookmarks
  /\ Len(bookmarks) = MaxBookmarks
  /\ Ids(bookmarks) # Ids(last.r.preBookmarks)
  /\ ~DensePositions(last.r.preBookmarks, MaxBookmarks)

\* C2: when a persistence call of a reorder fails, then once the reorder has
\* settled the filtered view is the sequence from before the gesture, the
\* working list is what it was before the gesture, and a notification has
\* been raised.
C2_FailedReorderRollsBack ==
  ( /\ Settled("ReorderReconciled") \/ Settled("ReorderReverted")
    /\ last.r.failed # {}
    /\ last.r.clean
    /\ last.r.newOrdered # last.r.filtered )
  => /\ filteredBookmarks = last.r.filtered
     /\ bookmarks = last.r.preBookmarks
     /\ toast = "Error updating order"

\* C3 as stated: fetch keeps the returned order, gives every record a defined
\* integer position, a missing position becoming the index; and returned
\* positions [null, 1, 0] become [0, 1, 2].
C3_FetchRenumbersExample ==
  (Settled("FetchBookmarksSettle") /\ last.outcome = "ok")
  => /\ Ids(bookmarks) = Ids(last.data)
     /\ \A i \in DOMAIN bookmarks :
          /\ bookmarks[i].position \in Nat
          /\ last.data[i].position = Null => bookmarks[i].position = i - 1
     /\ Positions(last.data) = <<Null, 1, 0>> => Positions(bookmarks) = <<0, 1, 2>>

\* C3 amended: fetch keeps the returned order, gives every record a defined
\* integer position, a missing position becoming the index; and returned
\* positions [null, 1, 0] become [0, 1, 0].
C3_FetchFillsMissingPositions ==
  (Settled("FetchBookmarksSettle") /\ last.outcome = "ok")
  => /\ Ids(bookmarks) = Ids(last.data)
     /\ \A i \in DOMAIN bookmarks :
          /\ bookmarks[i].position \in Nat
          /\ last.data[i].position = Null => bookmarks[i].position = i - 1
     /\ Positions(last.data) = <<Null, 1, 0>> => Positions(bookmarks) = <<0, 1, 0>>

C3_Witness ==
  /\ Settled("FetchBookmarksSettle") /\ last.outcome = "ok"
  /\ Positions(last.data) = <<Null, 1, 0>>
  /\ Len(bookmarks) = 3

\* C4: after any successful reorder, also one made while a search text or a
\* tag filter hides part of the working list, the positions of the working
\* list are dense and zero-based.  Stated for a reorder that starts from a
\* dense working list and an up-to-date filtered view.
C4_AnyReorderIsDense ==
  ( /\ Success
    /\ last.r.clean
    /\ DensePositions(last.r.preBookmarks, Len(last.r.preBookmarks))
    /\ last.r.filtered = FilterBookmarks(last.r.preBookmarks, searchTerm, selectedTags) )
  => DensePositions(bookmarks, Len(bookmarks))

\* The search text occurs in the field, letter case aside.
OccursIn(term, field) ==
  \E offset \in 0..(Len(field) - Len(term)) :
     \A j \in 1..Len(term) : LowerChar(field[offset + j]) = LowerChar(term[j])

\* b qualifies for search text s and selected tags T.
Qualifies(b, s, T) ==
  /\ \/ s = << >>
     \/ OccursIn(s, TitleOf(b.id))
     \/ OccursIn(s, UrlOf(b.id))
     \/ \E i \in DOMAIN SummaryOf(b.id) : OccursIn(s, SummaryOf(b.id)[i])
  /\ \/ T = {}
     \/ Range(TagsOf(b.id)) \cap T # {}

FilterSteps == {"SetSearchTerm", "ToggleTag", "ClearFilters"}

\* The steps that end with the filter effect.
Derived ==
  \/ last.op \in FilterSteps \cup {"FilterEffect"}
  \/ Settled("FetchBookmarksSettle") /\ last.outcome = "ok"
  \/ Settled("DeleteSettle") /\ last.outcome = "ok"
  \/ Settled("ReorderReconciled")

\* C5: the filtered view the filter derivation produces is the working list
\* restricted, in its order, to the bookmarks that match the search text (or
\* the text is empty) and share a tag with the selected tags (or none is
\* selected).
C5_FilteredViewIsQualifyingSubsequence ==
  Derived =>
    IsRestriction(filteredBookmarks, bookmarks,
                  {i \in DOMAIN bookmarks : Qualifies(bookmarks[i], searchTerm, selectedTags)})

C5_Witness ==
  /\ last.op \in FilterSteps
  /\ searchTerm # << >>
  /\ Cardinality(selectedTags) = 2
  /\ Len(bookmarks) = MaxBookmarks
  /\ Len(filteredBookmarks) = 1

\* C6: a change of search text or selected tags changes neither the working
\* list (so no position) nor the Remote Store, and Clear filters, with no
\* reorder in flight, makes the filtered view equal to the working list.
C6_FilterIsPureAndClearRestores ==
  [][ /\ last'.op \in FilterSteps => bookmarks' = bookmarks /\ store' = store
      /\ (last'.op = "ClearFilters" /\ reorders = << >>) =>
            /\ searchTerm' = << >> /\ selectedTags' = {}
            /\ filteredBookmarks' = bookmarks' ]_vars

C6_Witness ==
  /\ Settled("ClearFilters")
  /\ reorders = << >>
  /\ Len(bookmarks) = MaxBookmarks
  /\ filteredBookmarks = bookmarks

\* C7: a drag that ends on the dragged bookmark itself changes neither the
\* filtered view nor the working list nor any position, and issues no
\* persistence call.
C7_DropOnItselfIsNoOp ==
  [][ (last'.op = "HandleDragEnd" /\ last'.id = last'.over) =>
        /\ filteredBookmarks' = filteredBookmarks
        /\ bookmarks' = bookmarks
        /\ store' = store
        /\ reorders' = reorders ]_vars

C7_Witness ==
  /\ Settled("HandleDragEnd")
  /\ last.id = last.over
  /\ Len(filteredBookmarks) = MaxBookmarks

\* The reorder r moved one element: the dragged bookmark sits where the
\* target was, and without it the old and the new order coincide.
SingleMove(r) ==
  \E t \in DOMAIN r.filtered :
     /\ r.filtered[t].id = r.over
     /\ r.newOrdered[t].id = r.active
     /\ Len(r.newOrdered) = Len(r.filtered)
     /\ Range(r.newOrdered) = Range(r.filtered)
     /\ SelectSeq(r.newOrdered, LAMBDA b : b.id # r.active)
          = SelectSeq(r.filtered, LAMBDA b : b.id # r.active)

\* C8: a reorder whose source and target are both in the filtered view is a
\* single-element move; on ids [1,2,3] with positions [0,1,2], reorder(1,3)
\* gives the order [2,3,1] with positions [0,1,2].
C8_ReorderIsSingleMove ==
  /\ \A i \in DOMAIN reorders : reorders[i].over # NoOver => SingleMove(reorders[i])
  /\ ( /\ Success
       /\ last.r.clean
       /\ last.r.active = 1 /\ last.r.over = 3
       /\ last.r.preBookmarks = <<[id |-> 1, position |-> 0], [id |-> 2, position |-> 1],
                                 [id |-> 3, position |-> 2]>>
       /\ last.r.filtered = last.r.preBookmarks )
     => bookmarks = <<[id |-> 2, position |-> 0], [id |-> 3, position |-> 1],
                      [id |-> 1, position |-> 2]>>

C8_Witness ==
  /\ Success
  /\ last.r.clean
  /\ last.r.active = 1 /\ last.r.over = 3
  /\ last.r.filtered = last.r.preBookmarks
  /\ Positions(last.r.preBookmarks) = <<0, 1, 2>>
  /\ Ids(last.r.preBookmarks) = <<1, 2, 3>>

\* C9: the rows of another owner are never changed in the Remote Store and
\* never appear in the working list or the filtered view.
C9_OtherOwnersRowsUntouched ==
  /\ store[OtherId] = Row(OtherId, 0)
  /\ \A i \in DOMAIN bookmarks : OwnerOf(bookmarks[i].id) = Me
  /\ \A i \in DOMAIN filteredBookmarks : OwnerOf(filteredBookmarks[i].id) = Me

C9_Witness ==
  /\ Success
  /\ used.gestures = MaxGestures
  /\ Len(bookmarks) = MaxBookmarks - 1
  /\ \E id \in InitialIds : ~store[id].present
  /\ \E id \in InitialIds : store[id].present /\ store[id] # Row(id, id - 1)
  /\ store[OtherId] = Row(OtherId, 0)

\* C10: a successful delete leaves the working list without the bookmark of
\* that id, every other bookmark keeping its place in the order and its
\* position; when no bookmark has the id the list is unchanged and the
\* notification is not an error.
C10_DeleteRemovesWithoutRenumbering ==
  (Settled("DeleteSettle") /\ last.outcome = "ok")
  => /\ IsRestriction(bookmarks, last.pre,
                      {i \in DOMAIN last.pre : last.pre[i].id # last.id})
     /\ (\A i \in DOMAIN last.pre : last.pre[i].id # last.id)
          => bookmarks = last.pre /\ toast = "Bookmark deleted"

C10_Witness ==
  /\ Settled("DeleteSettle") /\ last.outcome = "ok"
  /\ last.pre # << >>
  /\ \A i \in DOMAIN last.pre : last.pre[i].id # last.id

\* C11: when the delete call fails, the working list and the filtered view
\* stay exactly as they were, an error notification is raised, and the call
\* is not issued again: the failed delete is gone and nothing takes its place.
C11_FailedDeleteChangesNothing ==
  [][ (last'.op = "DeleteSettle" /\ last'.outcome = "error") =>
        /\ bookmarks' = bookmarks
        /\ filteredBookmarks' = filteredBookmarks
        /\ store' = store
        /\ toast' = "Error deleting bookmark"
        /\ Len(deletes') = Len(deletes) - 1
        /\ fetches' = fetches ]_vars

C11_Witness ==
  /\ Settled("DeleteSettle") /\ last.outcome = "error"
  /\ Len(bookmarks) = MaxBookmarks
  /\ \E i \in DOMAIN filteredBookmarks : filteredBookmarks[i].id = last.id
  /\ toast = "Error deleting bookmark"
  /\ deletes = << >>

\* C12: when the select of a fetch fails, the working list and the tag
\* universe keep their value (empty when nothing was loaded before), an error
\* notification is raised, no fetch is issued in its place, and the loading
\* flag is false afterwards.
C12_FailedFetchKeepsLists ==
  [][ (last'.op = "FetchBookmarksSettle" /\ last'.outcome = "error") =>
        /\ bookmarks' = bookmarks
        /\ allTags' = allTags
        /\ isLoading => bookmarks' = << >> /\ allTags' = << >>
        /\ toast' = "Error loading bookmarks"
        /\ Len(fetches') = Len(fetches) - 1
        /\ isLoading' = FALSE ]_vars

C12_Witness ==
  /\ Settled("FetchBookmarksSettle") /\ last.outcome = "error"
  /\ Len(bookmarks) = MaxBookmarks
  /\ allTags # << >>
  /\ \E id \in AddedIds : store[id].present
  /\ fetches = << >>
  /\ ~isLoading

\* C13: on a URL that parses, whatever the title fetcher and the summary
\* fetcher do, the insert is issued, with the hostname as title when the
\* title fetcher failed and the placeholder as summary when the summary
\* fetcher failed; on a URL that does not parse no insert is issued and no
\* refresh is signalled.
C13_FetcherFailuresNeverBlockSave ==
  [][ (last'.op = "HandleSubmit") =>
        IF last'.outcome = "ok"
        THEN /\ form'.phase = "saving"
             /\ ~last'.fetched.title => form'.title = "hostname"
             /\ ~last'.fetched.summary => form'.summary = "Summary temporarily unavailable."
             /\ last'.fetched.title => form'.title = "page title"
             /\ last'.fetched.summary => form'.summary = "page text"
        ELSE /\ form'.phase = "idle"
             /\ store' = store
             /\ fetches' = fetches ]_vars

C13_Witness ==
  /\ Settled("HandleSubmit") /\ last.outcome = "ok"
  /\ ~last.fetched.title /\ ~last.fetched.summary
  /\ form.phase = "saving"
  /\ form.title = "hostname"
  /\ form.summary = "Summary temporarily unavailable."

\* C14: no two reorders overlap: at most one reorder has issued a persistence
\* call and not yet settled.
C14_ReordersNeverOverlap ==
  Cardinality({i \in DOMAIN reorders : reorders[i].calls # << >>}) <= 1

\* C15: within one reorder the persistence calls are issued one after
\* another in new-order index order: call j is for the bookmark at index j of
\* the new order, and while the reorder is in flight every call issued but
\* the last has completed.
C15_UpdateCallsAreSequential ==
  \A i \in DOMAIN reorders :
     LET r == reorders[i]
     IN  /\ Len(r.calls) - r.done = 1
         /\ Len(r.calls) <= Len(r.newOrdered)
         /\ \A j \in DOMAIN r.calls :
              r.calls[j] = [id |-> r.newOrdered[j].id, position |-> j - 1]

C15_Witness ==
  \E i \in DOMAIN reorders :
     /\ Len(reorders[i].calls) = MaxBookmarks
     /\ reorders[i].done = MaxBookmarks - 1
     /\ reorders[i].newOrdered # reorders[i].filtered

\* Number of the calls of reorder r made for the bookmark id.
CallsFor(r, id) == Cardinality({c \in DOMAIN r.calls : r.calls[c].id = id})

C17_ReorderIsOptimistic ==
  [][ /\ (last'.op = "HandleDragEnd" /\ last'.id # last'.over) =>
            /\ Len(reorders') = Len(reorders) + 1
            /\ LET r == reorders'[Len(reorders')]
               IN  /\ r.active = last'.id
                   /\ Len(r.calls) = 1 /\ r.done = 0
                   /\ filteredBookmarks' = r.newOrdered
                   /\ Ids(r.newOrdered) # Ids(r.filtered) => filteredBookmarks' # filteredBookmarks
            /\ bookmarks' = bookmarks
            /\ store' = store
      /\ last'.op \in {"UpdateSettle", "ReorderReverted"} => bookmarks' = bookmarks
      /\ last'.op = "ReorderReconciled" =>
            /\ Len(last'.r.calls) = Len(last'.r.newOrdered)
            /\ last'.r.done = Len(last'.r.calls) ]_vars

C17_Witness ==
  /\ Settled("HandleDragEnd")
  /\ reorders # << >>
  /\ LET r == reorders[Len(reorders)]
     IN  /\ Len(r.calls) = 1 /\ r.done = 0
         /\ Len(r.newOrdered) = MaxBookmarks
         /\ filteredBookmarks = r.newOrdered
         /\ Ids(filteredBookmarks) # Ids(bookmarks)
         /\ Ids(bookmarks) = Ids(r.filtered)

\* C18: the reconciliation of a successful reorder, with or without a filter,
\* gives every bookmark of the reordered view its index in the new order as
\* position, leaves every other bookmark of the working list with the
\* position it had, and leaves the working list sorted ascending by position.
C18_ReconciledPositions ==
  [][ (last'.op = "ReorderReconciled" /\ last'.r.failed = {}) =>
        LET newOrdered == last'.r.newOrdered
        IN  /\ Len(bookmarks') = Len(bookmarks)
            /\ \A i \in DOMAIN bookmarks' :
                 LET b == bookmarks'[i]
                 IN  IF \E j \in DOMAIN newOrdered : newOrdered[j].id = b.id
                     THEN \E j \in DOMAIN newOrdered :
                             newOrdered[j].id = b.id /\ b.position = j - 1
                     ELSE \E h \in DOMAIN bookmarks : bookmarks[h] = b
            /\ \A i \in 1..(Len(bookmarks') - 1) :
                 bookmarks'[i].position <= bookmarks'[i + 1].position ]_vars

C18_Witness ==
  /\ Success
  /\ last.r.clean
  /\ searchTerm # << >> \/ selectedTags # {}
  /\ Len(last.r.newOrdered) = MaxBookmarks - 1
  /\ Len(bookmarks) = MaxBookmarks
  /\ Ids(bookmarks) # Ids(last.r.preBookmarks)
  /\ \A j \in DOMAIN last.r.newOrdered :
        \E i \in DOMAIN bookmarks :
           bookmarks[i] = [id |-> last.r.newOrdered[j].id, position |-> j - 1]

\* C19: whenever no reorder is in flight, the filtered view is the working
\* list restricted to the bookmarks that qualify for the current search text
\* and selected tags.
C19_ViewIsFilterOfWorkingList ==
  reorders = << >> =>
    IsRestriction(filteredBookmarks, bookmarks,
                  {i \in DOMAIN bookmarks : Qualifies(bookmarks[i], searchTerm, selectedTags)})

\* C20: after a successful reorder with no other step in between, every
\* bookmark of the working list, hidden by the filter or not, has in the
\* Remote Store the position it has in memory.  Stated for a reorder that
\* changed the order of the view.
C20_StoreAgreesWithWorkingList ==
  (Success /\ last.r.clean /\ Ids(last.r.newOrdered) # Ids(last.r.filtered)) =>
    \A i \in DOMAIN bookmarks : store[bookmarks[i].id].position = bookmarks[i].position

\* The bookmark id is one of the reordered view of r.
InView(r, id) == \E j \in DOMAIN r.newOrdered : r.newOrdered[j].id = id

\* C20 amended: after a successful reorder with no other step in between,
\* every bookmark of the reordered view has in the Remote Store the position
\* it has in memory, its index in the new order; and no step of a reorder
\* writes the Remote Store row of a bookmark outside the view, so that a
\* hidden bookmark agrees only if it agreed before.
C20_StoreAgreesOnReorderedView ==
  [][ /\ (last'.op = "ReorderReconciled" /\ last'.r.failed = {} /\ last'.r.clean) =>
            \A i \in DOMAIN bookmarks' :
               InView(last'.r, bookmarks'[i].id) =>
                  /\ store'[bookmarks'[i].id].position = bookmarks'[i].position
                  /\ last'.r.newOrdered[bookmarks'[i].position + 1].id = bookmarks'[i].id
      /\ last'.op \in {"UpdateSettle", "ReorderReconciled", "ReorderReverted"} =>
            \A id \in AllIds : ~InView(last'.r, id) => store'[id] = store[id] ]_vars

C20_Witness ==
  /\ Success
  /\ last.r.clean
  /\ Len(last.r.newOrdered) = MaxBookmarks - 1
  /\ Ids(last.r.newOrdered) # Ids(last.r.filtered)
  /\ \E i \in DOMAIN bookmarks :
        /\ ~InView(last.r, bookmarks[i].id)
        /\ store[bookmarks[i].id].position = Null
        /\ bookmarks[i].position # Null
  /\ \A i \in DOMAIN bookmarks :
        InView(last.r, bookmarks[i].id) =>
           store[bookmarks[i].id].position = bookmarks[i].position

\* C21: a drag that ends with no drop target leaves the filtered view and the
\* working list unchanged and issues no persistence call.
C21_DragWithoutTargetIsNoOp ==
  [][ (last'.op = "HandleDragEnd" /\ last'.over = NoOver) =>
        /\ filteredBookmarks' = filteredBookmarks
        /\ bookmarks' = bookmarks
        /\ reorders' = reorders ]_vars

\* list is ordered by non-decreasing position.
Ascending(list) ==
  \A i \in 1..(Len(list) - 1) : list[i].position <= list[i + 1].position

\* C22: the working list is ordered by non-decreasing position in every
\* reachable state.
C22_WorkingListIsAscending == Ascending(bookmarks)

\* C23: when a fetch completes after a fetch that was issued later than it
\* has completed, and no fetch is outstanding any more, the working list and
\* the tag universe are those of the rows the later-issued fetch delivered:
\* the same bookmarks and the tags of those bookmarks.
C23_LastIssuedFetchWins ==
  ( /\ Settled("FetchBookmarksSettle") /\ last.outcome = "ok"
    /\ last.newer # << >>
    /\ fetches = << >> )
  => /\ Range(Ids(bookmarks)) = Range(Ids(last.newer[1]))
     /\ Range(allTags) = UNION {Range(TagsOf(last.newer[1][i].id)) : i \in DOMAIN last.newer[1]}

\* The distinct tags of the bookmarks of list, in lexicographic order.
SortedTagsOf(list) ==
  SelectSeq(TagOrder, LAMBDA t : \E i \in DOMAIN list : t \in Range(TagsOf(list[i].id)))

\* C24 as stated: whenever no fetch is in flight, the tag universe is the
\* sorted set of the distinct tags of the bookmarks of the working list.
C24_TagUniverseMatchesWorkingList ==
  fetches = << >> => allTags = SortedTagsOf(bookmarks)

\* C24 amended: a successful fetch sets the tag universe to the sorted set of
\* the distinct tags of the bookmarks it loaded; no other step changes it,
\* a delete included; so the tag universe always holds every tag of the
\* working list, and after a delete possibly tags of no remaining bookmark.
C24_TagUniverseIsSetByFetchOnly ==
  [][ /\ IF last'.op = "FetchBookmarksSettle" /\ last'.outcome = "ok"
         THEN allTags' = SortedTagsOf(bookmarks')
         ELSE allTags' = allTags
      /\ Range(SortedTagsOf(bookmarks')) \subseteq Range(allTags') ]_vars

C24_Witness ==
  /\ Settled("DeleteSettle") /\ last.outcome = "ok"
  /\ fetches = << >>
  /\ Len(bookmarks) = MaxBookmarks - 1
  /\ allTags = SortedTagsOf(last.pre)
  /\ allTags # SortedTagsOf(bookmarks)

====
